---- MODULE Spec2Model ----
(***************************************************************************)
(* Real-time race orchestration of the Guido game mode: the websocket     *)
(* handler (api/main.py game_websocket), the race loop (run_race_loop),    *)
(* the orchestrator (sim/game_loop.py GameLoopOrchestrator), the decision  *)
(* detector (sim/quick_sim.py check_decision_point) and the background     *)
(* pre-computation worker.                                                 *)
(*                                                                         *)
(* Resources (battery_soc, tire_life, fuel_remaining) are floats in the    *)
(* source; here they are exact integers in units of 1/Scale.  Python None  *)
(* is the empty sequence << >> and a present value v is << v >>.           *)
(* The specification Spec covers the orchestration state; lap times,       *)
(* cumulative times and positions are not part of it.                      *)
(***************************************************************************)
EXTENDS Integers, Sequences, FiniteSets, TLC

\* ------------------------------------------------------------------------
\* Bounds of the model
\* ------------------------------------------------------------------------
\* longest short race a client asks for
MaxLaps == 3
\* a race long enough for the tires to wear below the critical threshold
LongRace == 168
\* number of SELECT_STRATEGY messages the client sends on the connection
MaxClientMsgs == 2
\* number of states of the random generator
RngMod == 5
\* laps of the races whose lap times are followed
PhysLaps == 2

\* ------------------------------------------------------------------------
\* Program constants
\* ------------------------------------------------------------------------
Scale == 10000
FullTank == 100 * Scale
NoLap == << >>
None == << >>

\* time unit: 0.05 s.  UPDATE_INTERVAL = 0.1 s; LAP_TIME_DEMO = 90 / multiplier,
\* with LAP_TIME_MULTIPLIER = 450 from the environment: 0.2 s
UPDATE_INTERVAL == 2
LAP_TIME_DEMO == 4
\* elapsed time measured by one pass of the loop (now - last)
DtChoices == {1, 4}

StrategyNames == <<"Aggressive", "Balanced", "Conservative">>

Dials(e, t, f, r, o, d) ==
    [energy_deployment |-> e, tire_management |-> t, fuel_strategy |-> f,
     ers_mode |-> r, overtake_aggression |-> o, defense_intensity |-> d]

\* PlayerState defaults set by create_session
DefaultDials == Dials(60, 70, 65, 60, 50, 50)

\* (energy, tire_mgmt, fuel_strat, ers) of the seven opponents, in grid order
OpponentDials ==
    << <<70, 80, 70, 70>>, <<60, 90, 75, 65>>, <<55, 85, 80, 75>>,
       <<85, 60, 55, 80>>, <<50, 95, 75, 60>>, <<90, 70, 60, 85>>,
       <<60, 75, 70, 65>> >>

Max(a, b) == IF a >= b THEN a ELSE b
Min(a, b) == IF a <= b THEN a ELSE b

\* ------------------------------------------------------------------------
\* sim/quick_sim.py
\* ------------------------------------------------------------------------
generate_strategy_variations(event_type) ==
    CASE event_type = "RAIN_START" ->
           << Dials(85, 70, 60, 80, 90, 40), Dials(60, 80, 70, 65, 60, 55),
              Dials(35, 90, 85, 50, 30, 70) >>
      [] event_type = "TIRE_CRITICAL" ->
           << Dials(90, 40, 60, 85, 85, 35), Dials(60, 70, 65, 65, 55, 60),
              Dials(30, 95, 80, 50, 25, 75) >>
      [] event_type = "BATTERY_LOW" ->
           << Dials(70, 75, 65, 95, 60, 50), Dials(45, 80, 70, 85, 45, 60),
              Dials(20, 85, 80, 95, 25, 70) >>
      [] event_type = "SAFETY_CAR" ->
           << Dials(90, 65, 55, 80, 95, 30), Dials(65, 75, 65, 70, 65, 55),
              Dials(40, 85, 80, 60, 35, 80) >>
      [] OTHER ->
           << Dials(80, 70, 60, 80, 85, 45), Dials(60, 80, 70, 65, 60, 55),
              Dials(35, 90, 85, 50, 30, 70) >>

\* check_decision_point with the resource checks before the scenario flags
check_decision_point_resources_first(current_state, handled) ==
    IF current_state.tire_life < 25 * Scale /\ "TIRE_CRITICAL" \notin handled
    THEN <<"TIRE_CRITICAL">>
    ELSE IF current_state.battery_soc < 15 * Scale /\ "BATTERY_LOW" \notin handled
         THEN <<"BATTERY_LOW">>
    ELSE IF current_state.rain /\ "RAIN_START" \notin handled THEN <<"RAIN_START">>
    ELSE IF current_state.safety_car /\ "SAFETY_CAR" \notin handled THEN <<"SAFETY_CAR">>
    ELSE None

\* current_state is a RaceState; the result is << >> for Python's None
check_decision_point(current_state, handled) ==
    IF current_state.rain /\ "RAIN_START" \notin handled THEN <<"RAIN_START">>
    ELSE IF current_state.safety_car /\ "SAFETY_CAR" \notin handled THEN <<"SAFETY_CAR">>
    ELSE IF current_state.battery_soc < 15 * Scale /\ "BATTERY_LOW" \notin handled
         THEN <<"BATTERY_LOW">>
    ELSE IF current_state.tire_life < 25 * Scale /\ "TIRE_CRITICAL" \notin handled
         THEN <<"TIRE_CRITICAL">>
    ELSE IF current_state.gap_ahead < 1 /\ current_state.gap_ahead > 0
            /\ "OVERTAKE_OPPORTUNITY" \notin handled
         THEN <<"OVERTAKE_OPPORTUNITY">>
    ELSE None


\* ------------------------------------------------------------------------
\* State
\* ------------------------------------------------------------------------
VARIABLES
    \* client side of the connection
    inbox,              \* messages sent by the client, not yet received
    client_started,     \* the client has sent START_GAME
    client_selects,     \* number of SELECT_STRATEGY messages sent so far
    \* game_websocket / run_race_loop
    pc,                 \* "recv", "loop", "check" or "paused"
    orchestrator,       \* FALSE while game_websocket's orchestrator is None
    lap_accum, update_accum,
    outbox,             \* messages sent to the client, LAP_UPDATE excepted
    last_update,        \* the latest LAP_UPDATE sent, or None
    \* session_manager.sessions
    sessions,
    \* GameState
    current_lap, total_laps, is_paused, is_complete,
    player, opponents,
    rain_lap, safety_car_lap, is_raining, safety_car_active,
    current_decision_point, decision_history, pause_event,
    \* GameLoopOrchestrator
    handled_events, pre_computed_decision, pre_compute_started,
    \* THREAD_EXECUTOR job running pre_compute_rain_decision
    worker,             \* "idle", "dispatched", "done" or "failed"
    \* history: number of decision points resolved (by selection or timeout)
    resolved,
    \* the websocket connection
    connected,          \* FALSE once the client has closed the connection
    \* time.perf_counter() as read by run_race_loop, its local "last", and the
    \* LAP_UPDATE messages sent
    now, last, lap_updates,
    \* pre_compute_rain_decision: what the job has read from the session so far
    job,
    \* lap_time and cumulative_time of the cars (0 is the player), in units of
    \* 1 / (TimeScale * lap_time_multiplier) s
    lap_time, cumulative_time,
    \* position of the cars; 0 until the first lap is simulated
    position,
    \* numpy's global RandomState, and the seed the caller of advance_lap gave it
    rng, rng_seed,
    \* GeminiGameAdvisor.analyze_decision_point: one call in progress
    adv

client_vars == <<inbox, client_started, client_selects>>
loop_vars == <<pc, orchestrator, lap_accum, update_accum, outbox, last_update>>
\* every field of GameState
game_state == <<current_lap, total_laps, is_paused, is_complete, player, opponents,
                rain_lap, safety_car_lap, is_raining, safety_car_active,
                current_decision_point, decision_history, pause_event>>
orch_vars == <<handled_events, pre_computed_decision, pre_compute_started>>
conn_vars == <<connected>>
clock_vars == <<now, last, lap_updates>>
job_vars == <<job>>
phys_vars == <<lap_time, cumulative_time, position, rng, rng_seed>>
advisor_vars == <<adv>>
\* what the specification Spec abstracts from: it stays as Init sets it
aux_vars == <<conn_vars, clock_vars, job_vars, phys_vars, advisor_vars>>
core_vars == <<client_vars, loop_vars, sessions, game_state, orch_vars, worker, resolved>>
vars == <<core_vars, aux_vars>>

SessionId == "session-1"

\* ------------------------------------------------------------------------
\* Client inputs
\* ------------------------------------------------------------------------
OptLap(n) == {NoLap} \cup {<<l>> : l \in 1..n}

Scenarios ==
    {[total_laps |-> n, rain_lap |-> r, safety_car_lap |-> s] :
        n \in 0..MaxLaps, r \in OptLap(MaxLaps), s \in OptLap(MaxLaps)}
    \cup {[total_laps |-> LongRace, rain_lap |-> NoLap, safety_car_lap |-> NoLap]}

\* the races of at most MaxLaps laps
ShortScenarios == {sc \in Scenarios : sc.total_laps <= MaxLaps}

\* strategy ids the client sends; 3 is not the id of a strategy
ClientStrategyIds == {0, 1, 3}

StartGameMsg(sc) ==
    [type |-> "START_GAME", total_laps |-> <<sc.total_laps>>,
     rain_lap |-> sc.rain_lap, safety_car_lap |-> sc.safety_car_lap]
SelectMsg(id) == [type |-> "SELECT_STRATEGY", strategy_id |-> id]

\* ------------------------------------------------------------------------
\* sim/game_loop.py: the resource model
\* ------------------------------------------------------------------------
\* the resource step without the max(0, min(100, ...)) clamp of the battery
ResourceStep_unclamped(car, energy, tire_mgmt, fuel_strat, ers) ==
    LET battery_drain == energy * 120
        battery_gain == ers * 80
        base_tire_wear == (100 - tire_mgmt) * 150
        tire_wear == IF tire_mgmt < 50 THEN base_tire_wear * 2 ELSE base_tire_wear
        fuel_burn == IF fuel_strat < 50 THEN (100 - fuel_strat) * 75
                     ELSE (100 - fuel_strat) * 50
    IN [car EXCEPT
          !.battery_soc = car.battery_soc - battery_drain + battery_gain,
          !.tire_life = Max(0, car.tire_life - tire_wear),
          !.fuel_remaining = Max(0, car.fuel_remaining - fuel_burn)]

\* battery, tire and fuel of one car after a lap driven with the given dials
ResourceStep(car, energy, tire_mgmt, fuel_strat, ers) ==
    LET battery_drain == energy * 120
        battery_gain == ers * 80
        base_tire_wear == (100 - tire_mgmt) * 150
        tire_wear == IF tire_mgmt < 50 THEN base_tire_wear * 2 ELSE base_tire_wear
        fuel_burn == IF fuel_strat < 50 THEN (100 - fuel_strat) * 75
                     ELSE (100 - fuel_strat) * 50
    IN [car EXCEPT
          !.battery_soc = Max(0, Min(100 * Scale, car.battery_soc - battery_drain + battery_gain)),
          !.tire_life = Max(0, car.tire_life - tire_wear),
          !.fuel_remaining = Max(0, car.fuel_remaining - fuel_burn)]

_simulate_player_lap(p) ==
    ResourceStep(p, p.energy_deployment, p.tire_management, p.fuel_strategy, p.ers_mode)

_simulate_opponent_laps(opps) ==
    [i \in 1..Len(opps) |->
        ResourceStep(opps[i], OpponentDials[i][1], OpponentDials[i][2],
                     OpponentDials[i][3], OpponentDials[i][4])]

\* a scenario flag that is up only on the scheduled lap itself
ScenarioFlag_lap_only(flag, lap, scheduled) == <<lap>> = scheduled

\* lines 67-72: the flag is raised on the scheduled lap and never lowered
ScenarioFlag(flag, lap, scheduled) == flag \/ <<lap>> = scheduled

\* advance_lap with the completion test lap >= total_laps
advance_lap_complete_early ==
    /\ current_lap' = current_lap + 1
    /\ IF current_lap + 1 >= total_laps'
       THEN /\ is_complete' = TRUE
            /\ UNCHANGED <<is_raining, safety_car_active, player, opponents>>
       ELSE /\ is_complete' = is_complete
            /\ is_raining' = ScenarioFlag(is_raining, current_lap + 1, rain_lap')
            /\ safety_car_active' = ScenarioFlag(safety_car_active, current_lap + 1,
                                                 safety_car_lap')
            /\ player' = _simulate_player_lap(player)
            /\ opponents' = _simulate_opponent_laps(opponents)

\* advance_lap: the lap counter first, then completion, the scenario flags and the
\* cars.  total_laps, rain_lap and safety_car_lap are fixed at session creation; they
\* are read primed because the kick-start advance runs in the step that creates them
advance_lap ==
    /\ current_lap' = current_lap + 1
    /\ IF current_lap + 1 > total_laps'
       THEN /\ is_complete' = TRUE
            /\ UNCHANGED <<is_raining, safety_car_active, player, opponents>>
       ELSE /\ is_complete' = is_complete
            /\ is_raining' = ScenarioFlag(is_raining, current_lap + 1, rain_lap')
            /\ safety_car_active' = ScenarioFlag(safety_car_active, current_lap + 1,
                                                 safety_car_lap')
            /\ player' = _simulate_player_lap(player)
            /\ opponents' = _simulate_opponent_laps(opponents)

\* the RaceState built by check_for_decision_point from the live session
RaceStateOf(lap, p, rain, sc) ==
    [lap |-> lap, battery_soc |-> p.battery_soc, tire_life |-> p.tire_life,
     fuel_remaining |-> p.fuel_remaining, gap_ahead |-> 0, gap_behind |-> 0,
     rain |-> rain, safety_car |-> sc]

high_impact_events ==
    {"RAIN_START", "RAIN_STOP", "SAFETY_CAR", "BATTERY_LOW", "BATTERY_CRITICAL",
     "TIRE_CRITICAL"}

\* check_for_decision_point: << >> when not triggered, else << event_type >>;
\* the caller records the event in handled_events through HandledAfter
check_for_decision_point ==
    LET event_type == check_decision_point(
                         RaceStateOf(current_lap, player, is_raining, safety_car_active),
                         handled_events)
    IN IF event_type # None /\ event_type[1] \in high_impact_events
       THEN event_type ELSE None

HandledAfter_forget(decision_check) ==
    handled_events

HandledAfter(decision_check) ==
    IF decision_check # None THEN handled_events \cup {decision_check[1]}
    ELSE handled_events

_get_current_event_type ==
    IF is_raining /\ "RAIN_START" \in handled_events THEN "RAIN_START"
    ELSE IF safety_car_active /\ "SAFETY_CAR" \in handled_events THEN "SAFETY_CAR"
    ELSE IF player.battery_soc < 15 * Scale /\ "BATTERY_LOW" \in handled_events
         THEN "BATTERY_LOW"
    ELSE IF player.tire_life < 25 * Scale /\ "TIRE_CRITICAL" \in handled_events
         THEN "TIRE_CRITICAL"
    ELSE "STRATEGIC_CHECKPOINT"

\* the value apply_strategy_choice returns
apply_succeeds(strategy_id) ==
    0 <= strategy_id /\ strategy_id < Len(generate_strategy_variations(_get_current_event_type))

\* apply_strategy_choice without its "Record decision" step
apply_strategy_choice_no_record(strategy_id) ==
    LET strategy_params == generate_strategy_variations(_get_current_event_type)
    IN IF apply_succeeds(strategy_id)
       THEN LET chosen_strategy == strategy_params[strategy_id + 1]
            IN /\ player' = [player EXCEPT
                     !.energy_deployment = chosen_strategy.energy_deployment,
                     !.tire_management = chosen_strategy.tire_management,
                     !.fuel_strategy = chosen_strategy.fuel_strategy,
                     !.ers_mode = chosen_strategy.ers_mode,
                     !.overtake_aggression = chosen_strategy.overtake_aggression,
                     !.defense_intensity = chosen_strategy.defense_intensity]
               /\ UNCHANGED decision_history
       ELSE UNCHANGED <<player, decision_history>>

\* apply_strategy_choice: the six dials of the player and the history record
apply_strategy_choice(strategy_id) ==
    LET event_type == _get_current_event_type
        strategy_params == generate_strategy_variations(event_type)
    IN IF apply_succeeds(strategy_id)
       THEN LET chosen_strategy == strategy_params[strategy_id + 1]
            IN /\ player' = [player EXCEPT
                     !.energy_deployment = chosen_strategy.energy_deployment,
                     !.tire_management = chosen_strategy.tire_management,
                     !.fuel_strategy = chosen_strategy.fuel_strategy,
                     !.ers_mode = chosen_strategy.ers_mode,
                     !.overtake_aggression = chosen_strategy.overtake_aggression,
                     !.defense_intensity = chosen_strategy.defense_intensity]
               /\ decision_history' = Append(decision_history,
                     [lap |-> current_lap, event_type |-> event_type,
                      strategy_chosen |-> strategy_id, strategy_params |-> chosen_strategy])
       ELSE UNCHANGED <<player, decision_history>>


\* ------------------------------------------------------------------------
\* api/main.py: recommendations
\* ------------------------------------------------------------------------
HeuristicStrategies ==
    << [strategy_id |-> 0, strategy_params |-> Dials(85, 50, 55, 80, 85, 60)],
       [strategy_id |-> 1, strategy_params |-> Dials(60, 75, 70, 65, 55, 65)],
       [strategy_id |-> 2, strategy_params |-> Dials(35, 90, 85, 50, 30, 70)] >>

generate_heuristic_recommendations ==
    [recommended |-> <<HeuristicStrategies[2], HeuristicStrategies[1]>>,
     avoid |-> <<HeuristicStrategies[3]>>,
     latency_ms |-> 0,
     used_fallback |-> TRUE]

\* what analyze_decision_point hands back to pre_compute_rain_decision:
\* a ranking of the three strategies, the fallback flag and the measured latency
Rankings == {<<1, 0, 2>>, <<0, 2, 1>>}
AdvisorOutcomes ==
    {[ranking |-> r, used_fallback |-> f, latency_ms |-> IF f THEN 900 ELSE 1850] :
        r \in Rankings, f \in BOOLEAN}

\* pre_compute_rain_decision: the recommendations it caches, enriched with the
\* RAIN_START strategy parameters
PreComputedOf(o) ==
    LET strategy_params == generate_strategy_variations("RAIN_START")
        Rec(id) == [strategy_id |-> id, strategy_params |-> strategy_params[id + 1]]
    IN [recommended |-> <<Rec(o.ranking[1]), Rec(o.ranking[2])>>,
        avoid |-> <<Rec(o.ranking[3])>>,
        latency_ms |-> o.latency_ms,
        used_fallback |-> o.used_fallback]

\* the cache consulted for every event type
Recommendations_any_event(event_type) ==
    IF pre_computed_decision # None
    THEN [recommended |-> pre_computed_decision[1].recommended,
          avoid |-> pre_computed_decision[1].avoid,
          latency_ms |-> pre_computed_decision[1].latency_ms,
          used_fallback |-> pre_computed_decision[1].used_fallback,
          pre_computed |-> TRUE]
    ELSE [recommended |-> generate_heuristic_recommendations.recommended,
          avoid |-> generate_heuristic_recommendations.avoid,
          latency_ms |-> generate_heuristic_recommendations.latency_ms,
          used_fallback |-> generate_heuristic_recommendations.used_fallback,
          pre_computed |-> FALSE]

\* run_race_loop, lines 813-824: the cached decision for rain when there is one,
\* the heuristic otherwise
Recommendations(event_type) ==
    IF event_type = "RAIN_START" /\ pre_computed_decision # None
    THEN [recommended |-> pre_computed_decision[1].recommended,
          avoid |-> pre_computed_decision[1].avoid,
          latency_ms |-> pre_computed_decision[1].latency_ms,
          used_fallback |-> pre_computed_decision[1].used_fallback,
          pre_computed |-> TRUE]
    ELSE [recommended |-> generate_heuristic_recommendations.recommended,
          avoid |-> generate_heuristic_recommendations.avoid,
          latency_ms |-> generate_heuristic_recommendations.latency_ms,
          used_fallback |-> generate_heuristic_recommendations.used_fallback,
          pre_computed |-> FALSE]

DecisionPointMsg(event_type, recommendations) ==
    [type |-> "DECISION_POINT", event_type |-> event_type, lap |-> current_lap,
     battery_soc |-> player.battery_soc, tire_life |-> player.tire_life,
     fuel_remaining |-> player.fuel_remaining,
     recommended |-> recommendations.recommended, avoid |-> recommendations.avoid,
     latency_ms |-> recommendations.latency_ms,
     used_fallback |-> recommendations.used_fallback]

\* ------------------------------------------------------------------------
\* Initial state: the connection is accepted, no session exists
\* ------------------------------------------------------------------------
NewCar == [battery_soc |-> 100 * Scale, tire_life |-> 100 * Scale,
           fuel_remaining |-> FullTank]

NewPlayer ==
    [battery_soc |-> 100 * Scale, tire_life |-> 100 * Scale, fuel_remaining |-> FullTank,
     energy_deployment |-> DefaultDials.energy_deployment,
     tire_management |-> DefaultDials.tire_management,
     fuel_strategy |-> DefaultDials.fuel_strategy,
     ers_mode |-> DefaultDials.ers_mode,
     overtake_aggression |-> DefaultDials.overtake_aggression,
     defense_intensity |-> DefaultDials.defense_intensity]

\* the time unit of lap_time is 1 / (TimeScale * lap_time_multiplier) s
TimeScale == 1000000
Cars == 0..7

\* no call of the advisor is followed
NoAdvisorCall == adv = None

AuxInit ==
    /\ connected = TRUE
    /\ now = 0 /\ last = 0 /\ lap_updates = << >>
    /\ job = None
    /\ lap_time = [c \in Cars |-> 0] /\ cumulative_time = [c \in Cars |-> 0]
    /\ position = [c \in Cars |-> 0]
    /\ rng = 0 /\ rng_seed = None

CoreInit ==
    /\ inbox = << >> /\ client_started = FALSE /\ client_selects = 0
    /\ pc = "recv" /\ orchestrator = FALSE
    /\ lap_accum = 0 /\ update_accum = 0
    /\ outbox = << >> /\ last_update = None
    /\ sessions = {}
    /\ current_lap = 0 /\ total_laps = 0
    /\ is_paused = FALSE /\ is_complete = FALSE
    /\ player = NewPlayer
    /\ opponents = [i \in 1..7 |-> NewCar]
    /\ rain_lap = NoLap /\ safety_car_lap = NoLap
    /\ is_raining = FALSE /\ safety_car_active = FALSE
    /\ current_decision_point = None /\ decision_history = << >>
    /\ pause_event = FALSE
    /\ handled_events = {} /\ pre_computed_decision = None
    /\ pre_compute_started = FALSE
    /\ worker = "idle"
    /\ resolved = 0

Init == CoreInit /\ AuxInit /\ NoAdvisorCall

\* ------------------------------------------------------------------------
\* The client
\* ------------------------------------------------------------------------
ClientStartGame ==
    /\ ~client_started
    /\ \E sc \in Scenarios : inbox' = Append(inbox, StartGameMsg(sc))
    /\ client_started' = TRUE
    /\ UNCHANGED <<client_selects, loop_vars, sessions, game_state, orch_vars,
                   worker, resolved, aux_vars>>

ClientSelectStrategy ==
    /\ client_selects < MaxClientMsgs
    /\ \E id \in ClientStrategyIds : inbox' = Append(inbox, SelectMsg(id))
    /\ client_selects' = client_selects + 1
    /\ UNCHANGED <<client_started, loop_vars, sessions, game_state, orch_vars,
                   worker, resolved, aux_vars>>

\* ------------------------------------------------------------------------
\* game_websocket: the receive loop
\* ------------------------------------------------------------------------
\* START_GAME: create_session, RACE_STARTED, then run_race_loop up to its loop:
\* the pause event is set and the race is kick-started with a first advance_lap
StartGame ==
    /\ pc = "recv" /\ inbox # << >> /\ Head(inbox).type = "START_GAME"
    /\ connected /\ Head(inbox).total_laps # None
    /\ inbox' = Tail(inbox)
    /\ sessions' = sessions \cup {SessionId}
    /\ orchestrator' = TRUE
    /\ total_laps' = Head(inbox).total_laps[1]
    /\ rain_lap' = Head(inbox).rain_lap
    /\ safety_car_lap' = Head(inbox).safety_car_lap
    /\ outbox' = Append(outbox, [type |-> "RACE_STARTED",
                                  total_laps |-> Head(inbox).total_laps[1]])
    /\ pause_event' = TRUE
    /\ lap_accum' = 0 /\ update_accum' = 0
    /\ advance_lap
    /\ pc' = IF is_complete' THEN "recv" ELSE "loop"
    /\ UNCHANGED <<client_started, client_selects, last_update, is_paused,
                   current_decision_point, decision_history, orch_vars, worker, resolved>>

\* START_GAME with the clock and the lap times left out
HandleStartGame ==
    StartGame /\ UNCHANGED aux_vars

\* lines 617-621: apply_strategy_choice returned False; ERROR is sent and nothing
\* else is touched
RejectSelection_release ==
    /\ outbox' = Append(outbox, [type |-> "ERROR",
                                 message |-> "Invalid strategy selection"])
    /\ current_decision_point' = None /\ pause_event' = TRUE
    /\ UNCHANGED resolved

RejectSelection ==
    /\ outbox' = Append(outbox, [type |-> "ERROR",
                                 message |-> "Invalid strategy selection"])
    /\ UNCHANGED <<current_decision_point, pause_event, resolved>>

\* SELECT_STRATEGY received by the receive loop
HandleSelectStrategy ==
    /\ pc = "recv" /\ inbox # << >> /\ Head(inbox).type = "SELECT_STRATEGY"
    /\ connected
    /\ inbox' = Tail(inbox)
    /\ LET strategy_id == Head(inbox).strategy_id
       IN IF ~orchestrator
          THEN /\ outbox' = Append(outbox, [type |-> "ERROR",
                                            message |-> "No active game session"])
               /\ UNCHANGED <<player, decision_history, current_decision_point,
                              pause_event, resolved>>
          ELSE /\ apply_strategy_choice(strategy_id)
               /\ IF apply_succeeds(strategy_id)
                  THEN /\ current_decision_point' = None
                       /\ outbox' = Append(outbox, [type |-> "STRATEGY_APPLIED",
                                                    strategy_id |-> strategy_id])
                       /\ pause_event' = TRUE
                       /\ resolved' = IF pause_event THEN resolved ELSE resolved + 1
                  ELSE RejectSelection
    /\ UNCHANGED <<client_started, client_selects, pc, orchestrator, lap_accum,
                   update_accum, last_update, sessions, current_lap, total_laps,
                   is_paused, is_complete, opponents, rain_lap, safety_car_lap,
                   is_raining, safety_car_active, orch_vars, worker, aux_vars>>


\* ------------------------------------------------------------------------
\* run_race_loop
\* ------------------------------------------------------------------------
\* lines 760-766: the job is handed to THREAD_EXECUTOR when lap 2 has been reached
DispatchPreCompute ==
    IF current_lap' = 2 /\ ~pre_compute_started
    THEN pre_compute_started' = TRUE /\ worker' = "dispatched"
    ELSE UNCHANGED <<pre_compute_started, worker>>

LapUpdateMsg ==
    [type |-> "LAP_UPDATE", lap |-> current_lap', is_raining |-> is_raining',
     safety_car_active |-> safety_car_active']

\* line 784: this pass sends LAP_UPDATE
SendsLapUpdate(dt) ==
    pause_event /\ ~is_complete' /\ update_accum + dt >= UPDATE_INTERVAL

\* a pass that awaits the future of the executor before it goes on
LoopPass_awaits_job(dt) ==
    /\ pc = "loop" /\ connected
    /\ worker # "dispatched"
    /\ ~is_complete /\ ~is_paused
    /\ UNCHANGED <<total_laps, rain_lap, safety_car_lap>>
    /\ IF ~pause_event
       THEN UNCHANGED <<pc, lap_accum, update_accum, outbox, last_update, current_lap,
                        is_complete, player, opponents, is_raining, safety_car_active,
                        pre_compute_started, worker>>
       ELSE /\ IF lap_accum + dt >= LAP_TIME_DEMO
               THEN advance_lap /\ DispatchPreCompute
               ELSE UNCHANGED <<current_lap, is_complete, player, opponents, is_raining,
                                safety_car_active, pre_compute_started, worker>>
            /\ IF is_complete'
               THEN /\ outbox' = Append(outbox,
                          [type |-> "RACE_COMPLETE",
                           decision_count |-> Len(decision_history)])
                    /\ lap_accum' = 0 /\ update_accum' = 0
                    /\ pc' = "recv"
                    /\ UNCHANGED last_update
               ELSE /\ lap_accum' = IF lap_accum + dt >= LAP_TIME_DEMO THEN 0
                                    ELSE lap_accum + dt
                    /\ IF SendsLapUpdate(dt)
                       THEN update_accum' = 0 /\ last_update' = <<LapUpdateMsg>>
                       ELSE update_accum' = update_accum + dt /\ UNCHANGED last_update
                    /\ pc' = "check"
                    /\ UNCHANGED outbox
    /\ UNCHANGED <<client_vars, orchestrator, sessions, is_paused,
                   current_decision_point, decision_history,
                   pause_event, handled_events, pre_computed_decision, resolved>>

\* one pass of the while loop from its top to the decision check (lines 681-803);
\* dt is the time measured since the previous pass
LoopPass(dt) ==
    /\ pc = "loop" /\ connected
    /\ ~is_complete /\ ~is_paused
    /\ UNCHANGED <<total_laps, rain_lap, safety_car_lap>>
    /\ IF ~pause_event
       THEN UNCHANGED <<pc, lap_accum, update_accum, outbox, last_update, current_lap,
                        is_complete, player, opponents, is_raining, safety_car_active,
                        pre_compute_started, worker>>
       ELSE /\ IF lap_accum + dt >= LAP_TIME_DEMO
               THEN advance_lap /\ DispatchPreCompute
               ELSE UNCHANGED <<current_lap, is_complete, player, opponents, is_raining,
                                safety_car_active, pre_compute_started, worker>>
            /\ IF is_complete'
               THEN \* RACE_COMPLETE and break: run_race_loop returns to the receive loop
                    /\ outbox' = Append(outbox,
                          [type |-> "RACE_COMPLETE",
                           decision_count |-> Len(decision_history)])
                    /\ lap_accum' = 0 /\ update_accum' = 0
                    /\ pc' = "recv"
                    /\ UNCHANGED last_update
               ELSE /\ lap_accum' = IF lap_accum + dt >= LAP_TIME_DEMO THEN 0
                                    ELSE lap_accum + dt
                    /\ IF SendsLapUpdate(dt)
                       THEN update_accum' = 0 /\ last_update' = <<LapUpdateMsg>>
                       ELSE update_accum' = update_accum + dt /\ UNCHANGED last_update
                    /\ pc' = "check"
                    /\ UNCHANGED outbox
    /\ UNCHANGED <<client_vars, orchestrator, sessions, is_paused,
                   current_decision_point, decision_history,
                   pause_event, handled_events, pre_computed_decision, resolved>>

\* the pass with the clock, the job's reads and the lap times left out
LoopTick(dt) ==
    LoopPass(dt) /\ UNCHANGED aux_vars

\* lines 847-853: the pause event is cleared and the loop waits on it
PauseForDecision_no_wait ==
    pause_event' = pause_event /\ pc' = "loop"

PauseForDecision ==
    pause_event' = FALSE /\ pc' = "paused"

\* the decision check that sends DECISION_POINT and lets the loop run on
LoopCheck_keeps_running ==
    /\ pc = "check" /\ connected
    /\ LET decision_check == check_for_decision_point
       IN /\ handled_events' = HandledAfter(decision_check)
          /\ IF decision_check # None
             THEN LET event_type == decision_check[1]
                      recommendations == Recommendations(event_type)
                  IN /\ outbox' = Append(outbox,
                                         DecisionPointMsg(event_type, recommendations))
                     /\ current_decision_point' =
                           <<[event_type |-> event_type,
                              recommendations |-> recommendations]>>
                     /\ pause_event' = pause_event /\ pc' = "loop"
             ELSE /\ pc' = "loop"
                  /\ UNCHANGED <<outbox, current_decision_point, pause_event>>
    /\ UNCHANGED <<client_vars, orchestrator, lap_accum, update_accum, last_update,
                   sessions, current_lap, total_laps, is_paused, is_complete, player,
                   opponents, rain_lap, safety_car_lap, is_raining, safety_car_active,
                   decision_history, pre_computed_decision, pre_compute_started,
                   worker, resolved, aux_vars>>

\* lines 805-849: the decision check; when an event fires, DECISION_POINT is sent,
\* the decision point is stored and the pause event is cleared
LoopCheck ==
    /\ pc = "check" /\ connected
    /\ LET decision_check == check_for_decision_point
       IN /\ handled_events' = HandledAfter(decision_check)
          /\ IF decision_check # None
             THEN LET event_type == decision_check[1]
                      recommendations == Recommendations(event_type)
                  IN /\ outbox' = Append(outbox,
                                         DecisionPointMsg(event_type, recommendations))
                     /\ current_decision_point' =
                           <<[event_type |-> event_type,
                              recommendations |-> recommendations]>>
                     /\ PauseForDecision
             ELSE /\ pc' = "loop"
                  /\ UNCHANGED <<outbox, current_decision_point, pause_event>>
    /\ UNCHANGED <<client_vars, orchestrator, lap_accum, update_accum, last_update,
                   sessions, current_lap, total_laps, is_paused, is_complete, player,
                   opponents, rain_lap, safety_car_lap, is_raining, safety_car_active,
                   decision_history, pre_computed_decision, pre_compute_started,
                   worker, resolved, aux_vars>>

\* lines 851-862: wait_for(pause_event.wait(), 300 s) returns at once when the event
\* is set; otherwise the timeout elapses and the balanced strategy is auto-selected
WaitPass ==
    /\ pc = "paused"
    /\ IF pause_event
       THEN UNCHANGED <<player, decision_history, pause_event, resolved>>
       ELSE /\ apply_strategy_choice(1)
            /\ pause_event' = TRUE
            /\ resolved' = resolved + 1
    /\ pc' = "loop"
    /\ UNCHANGED <<client_vars, orchestrator, lap_accum, update_accum, outbox,
                   last_update, sessions, current_lap, total_laps, is_paused,
                   is_complete, opponents, rain_lap, safety_car_lap, is_raining,
                   safety_car_active, current_decision_point, orch_vars, worker>>

\* the wait with the clock left out
WaitForPause ==
    WaitPass /\ UNCHANGED aux_vars

\* ------------------------------------------------------------------------
\* The THREAD_EXECUTOR job
\* ------------------------------------------------------------------------
\* pre_compute_rain_decision runs to its end and caches its recommendations
WorkerComplete ==
    /\ worker = "dispatched"
    /\ \E o \in AdvisorOutcomes : pre_computed_decision' = <<PreComputedOf(o)>>
    /\ worker' = "done"
    /\ UNCHANGED <<client_vars, loop_vars, sessions, game_state, handled_events,
                   pre_compute_started, resolved, aux_vars>>

\* the job raises before line 569 (the simulations or the aggregation fail):
\* nothing is cached
WorkerFail ==
    /\ worker = "dispatched"
    /\ worker' = "failed"
    /\ UNCHANGED <<client_vars, loop_vars, sessions, game_state, orch_vars, resolved,
                   aux_vars>>

\* ------------------------------------------------------------------------
\* Disconnection, exceptions and the other connections of the process
\* ------------------------------------------------------------------------
OtherSessionId == "session-2"

\* START_GAME for one of the short races
ClientStartShortGame ==
    /\ ~client_started
    /\ \E sc \in ShortScenarios : inbox' = Append(inbox, StartGameMsg(sc))
    /\ client_started' = TRUE
    /\ UNCHANGED <<client_selects, loop_vars, sessions, game_state, orch_vars,
                   worker, resolved, aux_vars>>

\* START_GAME {"total_laps": null}: data.get('total_laps', 57) is None
ClientStartNullLaps ==
    /\ ~client_started
    /\ inbox' = Append(inbox, [type |-> "START_GAME", total_laps |-> None,
                               rain_lap |-> NoLap, safety_car_lap |-> NoLap])
    /\ client_started' = TRUE
    /\ UNCHANGED <<client_selects, loop_vars, sessions, game_state, orch_vars,
                   worker, resolved, aux_vars>>

\* the client closes the connection once everything it sent has been read
ClientDisconnect ==
    /\ connected /\ inbox = << >>
    /\ connected' = FALSE
    /\ UNCHANGED <<core_vars, clock_vars, job_vars, phys_vars, advisor_vars>>

\* lines 538-544: receive_json raises WebSocketDisconnect on the closed connection;
\* the inner "except Exception" catches it and leaves the receive loop by break,
\* so neither handler of the outer try runs
ReceiveRaises ==
    /\ pc = "recv" /\ ~connected /\ inbox = << >>
    /\ pc' = "closed"
    /\ UNCHANGED <<client_vars, orchestrator, lap_accum, update_accum, outbox,
                   last_update, sessions, game_state, orch_vars, worker, resolved,
                   aux_vars>>

\* Exceptions the next send_json of run_race_loop raises on a closed connection:
\* WebSocketDisconnect, or the server's own error, depending on the ASGI server
SendErrors == {"WebSocketDisconnect", "RuntimeError"}

\* lines 623-638 reached from run_race_loop: WebSocketDisconnect deletes the
\* session; any other exception is answered with ERROR (which cannot be sent
\* any more) and nothing else
SendRaises ==
    /\ pc \in {"loop", "check"} /\ ~connected
    /\ \E e \in SendErrors :
          sessions' = IF e = "WebSocketDisconnect" THEN sessions \ {SessionId}
                      ELSE sessions
    /\ pc' = "closed"
    /\ UNCHANGED <<client_vars, orchestrator, lap_accum, update_accum, outbox,
                   last_update, game_state, orch_vars, worker, resolved, aux_vars>>

\* START_GAME with total_laps None: the session is created, RACE_STARTED is sent,
\* run_race_loop sets the pause event and kick-starts the race; advance_lap
\* increments current_lap and raises TypeError at "lap > total_laps"
\* (game_loop.py:59).  The outer "except Exception" sends ERROR 'Game error'
\* and the handler returns.
HandleStartGameNullLaps ==
    /\ pc = "recv" /\ inbox # << >> /\ Head(inbox).type = "START_GAME"
    /\ connected /\ Head(inbox).total_laps = None
    /\ inbox' = Tail(inbox)
    /\ sessions' = sessions \cup {SessionId}
    /\ orchestrator' = TRUE
    /\ total_laps' = None
    /\ rain_lap' = Head(inbox).rain_lap
    /\ safety_car_lap' = Head(inbox).safety_car_lap
    /\ pause_event' = TRUE
    /\ current_lap' = current_lap + 1
    /\ outbox' = outbox \o << [type |-> "RACE_STARTED", total_laps |-> None],
                              [type |-> "ERROR", message |-> "Game error"] >>
    /\ pc' = "closed"
    /\ UNCHANGED <<client_started, client_selects, lap_accum, update_accum,
                   last_update, is_paused, is_complete, player, opponents,
                   is_raining, safety_car_active, current_decision_point,
                   decision_history, orch_vars, worker, resolved, aux_vars>>

\* another connection of the same process creates its session (lines 556-561)
OtherStartGame ==
    /\ OtherSessionId \notin sessions
    /\ sessions' = sessions \cup {OtherSessionId}
    /\ UNCHANGED <<client_vars, loop_vars, game_state, orch_vars, worker, resolved,
                   aux_vars>>

\* the other connection's race loop is cut by WebSocketDisconnect: its handler
\* deletes its session (lines 623-627)
OtherDisconnect ==
    /\ OtherSessionId \in sessions
    /\ sessions' = sessions \ {OtherSessionId}
    /\ UNCHANGED <<client_vars, loop_vars, game_state, orch_vars, worker, resolved,
                   aux_vars>>

ConnNext ==
    \/ ClientStartShortGame
    \/ ClientStartNullLaps
    \/ ClientSelectStrategy
    \/ ClientDisconnect
    \/ HandleStartGame
    \/ HandleStartGameNullLaps
    \/ HandleSelectStrategy
    \/ \E dt \in DtChoices : LoopTick(dt)
    \/ LoopCheck
    \/ WaitForPause
    \/ ReceiveRaises
    \/ SendRaises
    \/ OtherStartGame
    \/ OtherDisconnect

\* the short races with disconnection, exceptions and a second session; the
\* pre-computation job, once dispatched, is not followed
ConnSpec == Init /\ [][ConnNext]_vars

\* ------------------------------------------------------------------------
\* The detector on drawn race states
\* ------------------------------------------------------------------------
\* battery_soc and tire_life around the thresholds 15 and 25
BatteryLevels == {0, 15 * Scale - 1, 15 * Scale, 50 * Scale}
TireLevels == {0, 25 * Scale - 1, 25 * Scale, 100 * Scale}
DetectorEvents == {"RAIN_START", "SAFETY_CAR", "BATTERY_LOW", "TIRE_CRITICAL"}

\* a session in the middle of its race, at the decision check of a pass: rain and
\* safety car started on lap 1 or not at all, and an event that was handled is one
\* whose flag is still up (the flags and the tire wear never go back)
DetectInit ==
    /\ inbox = << >> /\ client_started = TRUE /\ client_selects = 0
    /\ pc = "check" /\ orchestrator = TRUE
    /\ lap_accum = 0 /\ update_accum = 0
    /\ outbox = << [type |-> "RACE_STARTED", total_laps |-> 2] >>
    /\ last_update = None
    /\ sessions = {SessionId}
    /\ current_lap = 1 /\ total_laps = 2
    /\ is_paused = FALSE /\ is_complete = FALSE
    /\ \E b \in BatteryLevels, t \in TireLevels :
          player = [NewPlayer EXCEPT !.battery_soc = b, !.tire_life = t]
    /\ opponents = [i \in 1..7 |-> NewCar]
    /\ is_raining \in BOOLEAN /\ safety_car_active \in BOOLEAN
    /\ rain_lap = IF is_raining THEN <<1>> ELSE NoLap
    /\ safety_car_lap = IF safety_car_active THEN <<1>> ELSE NoLap
    /\ current_decision_point = None /\ decision_history = << >>
    /\ pause_event = TRUE
    /\ handled_events \in SUBSET DetectorEvents
    /\ "RAIN_START" \in handled_events => is_raining
    /\ "SAFETY_CAR" \in handled_events => safety_car_active
    /\ "TIRE_CRITICAL" \in handled_events => player.tire_life < 25 * Scale
    /\ pre_computed_decision = None /\ pre_compute_started = TRUE
    /\ worker = "failed"
    /\ resolved = 0
    /\ AuxInit /\ NoAdvisorCall

DetectNext ==
    \/ LoopCheck
    \/ WaitForPause
    \/ \E dt \in DtChoices : LoopTick(dt)

DetectSpec == DetectInit /\ [][DetectNext]_vars

\* ------------------------------------------------------------------------
\* Lap times and the random generator
\* ------------------------------------------------------------------------
\* numpy's global generator: seed(s) sets its state, every draw moves it on
RngSeeded(s) == s % RngMod
RngStep(r) == (r + 1) % RngMod
RECURSIVE RngAfter(_, _)
RngAfter(r, n) == IF n = 0 THEN r ELSE RngAfter(RngStep(r), n - 1)
\* np.random.uniform(low, high) from the generator state r, in [low, high)
RngUniform(low, high, r) == low + ((high - low) * r) \div RngMod

\* the lap time of a car whose resources are already updated, before the division
\* by lap_time_multiplier (game_loop.py:128-150)
LapTime(car, energy, tire_mgmt, rain, sc, jitter) ==
    90 * TimeScale - energy * ((6 * TimeScale) \div 1000)
       + (100 - tire_mgmt) * ((4 * TimeScale) \div 1000)
       + (IF car.battery_soc < 20 * Scale
          THEN (20 * Scale - car.battery_soc) * (TimeScale \div (25 * Scale))
          ELSE 0)
       + (IF rain THEN 2 * TimeScale ELSE 0)
       + (IF sc THEN 30 * TimeScale ELSE 0)
       + jitter

\* lap times of the cars after the lap, jitter[c] being the value np.random.uniform
\* returned for car c
LapTimesOf(p, opps, rain, sc, jitter) ==
    [c \in Cars |->
        IF c = 0
        THEN LapTime(p, p.energy_deployment, p.tire_management, rain, sc, jitter[0])
        ELSE LapTime(opps[c], OpponentDials[c][1], OpponentDials[c][2], rain, sc,
                     jitter[c])]

\* lap times of the player (car 0, first draw, jitter of half a second) and of the
\* opponents (draws 2 to 8, jitter of a second), from the cars after the lap
LapTimes(p, opps, rain, sc, r) ==
    LapTimesOf(p, opps, rain, sc,
               [c \in Cars |->
                   IF c = 0 THEN RngUniform(-(TimeScale \div 2), TimeScale \div 2, r)
                   ELSE RngUniform(-TimeScale, TimeScale, RngAfter(r, c))])

\* positions that give cars with equal cumulative time the same rank
_update_race_positions_shared_rank(ct) ==
    [c \in Cars |-> 1 + Cardinality({d \in Cars : ct[d] < ct[c]})]

\* _update_race_positions: the cars in the order player, opponents 1..7 are sorted
\* by cumulative time (list.sort is stable) and numbered from 1
_update_race_positions(ct) ==
    [c \in Cars |->
        1 + Cardinality({d \in Cars : ct[d] < ct[c] \/ (ct[d] = ct[c] /\ d < c)})]

\* advance_lap with the lap times: what a caller of orchestrator.advance_lap() sees
AdvanceLapTimed ==
    /\ orchestrator /\ pc = "loop" /\ ~is_complete
    /\ UNCHANGED <<total_laps, rain_lap, safety_car_lap>>
    /\ advance_lap
    /\ IF is_complete'
       THEN UNCHANGED <<lap_time, cumulative_time, position, rng>>
       ELSE /\ lap_time' = LapTimes(player', opponents', is_raining',
                                    safety_car_active', rng)
            /\ cumulative_time' = [c \in Cars |-> cumulative_time[c] + lap_time'[c]]
            /\ position' = _update_race_positions(cumulative_time')
            /\ rng' = RngAfter(rng, 8)
    /\ rng_seed' = None
    /\ UNCHANGED <<client_vars, pc, orchestrator, lap_accum, update_accum, outbox,
                   last_update, sessions, is_paused, current_decision_point,
                   decision_history, pause_event, orch_vars, worker, resolved,
                   conn_vars, clock_vars, job_vars, advisor_vars>>

\* the caller seeds the generator before it advances: np.random.seed(s)
SeedRng ==
    /\ pc = "loop" /\ ~is_complete /\ rng_seed = None
    /\ \E s \in 0..(RngMod - 1) : rng' = RngSeeded(s) /\ rng_seed' = <<s>>
    /\ UNCHANGED <<core_vars, conn_vars, clock_vars, job_vars, advisor_vars,
                   lap_time, cumulative_time, position>>

\* quick_sim.py:97, run by the pre-computation thread of this or another session:
\* np.random.seed(sim_run) on the same global generator, followed by draws
QuickSimReseeds ==
    /\ pc = "loop" /\ ~is_complete
    /\ \E sim_run \in 0..(RngMod - 1), n \in 0..1 :
          rng' = RngAfter(RngSeeded(sim_run), n)
    /\ UNCHANGED <<core_vars, conn_vars, clock_vars, job_vars, advisor_vars,
                   lap_time, cumulative_time, position, rng_seed>>

\* another session's advance_lap draws its eight jitters from the same generator
OtherSessionDraws ==
    /\ pc = "loop" /\ ~is_complete
    /\ rng' = RngAfter(rng, 8)
    /\ UNCHANGED <<core_vars, conn_vars, clock_vars, job_vars, advisor_vars,
                   lap_time, cumulative_time, position, rng_seed>>

\* dials and resource levels of the cars the lap model is run on
DialLevels == {0, 49, 100}
LowCar == [battery_soc |-> Scale, tire_life |-> Scale, fuel_remaining |-> Scale \div 4]

\* a session before its first lap: the dials anywhere in [0, 100], the resources
\* full, below the battery penalty threshold, or about to run out
PhysInit ==
    /\ inbox = << >> /\ client_started = TRUE /\ client_selects = 0
    /\ pc = "loop" /\ orchestrator = TRUE
    /\ lap_accum = 0 /\ update_accum = 0
    /\ outbox = << [type |-> "RACE_STARTED", total_laps |-> PhysLaps] >>
    /\ last_update = None
    /\ sessions = {SessionId}
    /\ current_lap = 0 /\ total_laps = PhysLaps
    /\ is_paused = FALSE /\ is_complete = FALSE
    /\ \E car \in {NewCar, LowCar, [NewCar EXCEPT !.battery_soc = 19 * Scale]},
          e \in {0, 100}, tm \in DialLevels, fs \in DialLevels :
          player = [battery_soc |-> car.battery_soc, tire_life |-> car.tire_life,
                    fuel_remaining |-> car.fuel_remaining,
                    energy_deployment |-> e, tire_management |-> tm,
                    fuel_strategy |-> fs, ers_mode |-> 100 - e,
                    overtake_aggression |-> DefaultDials.overtake_aggression,
                    defense_intensity |-> DefaultDials.defense_intensity]
    /\ \E car \in {NewCar, LowCar} : opponents = [i \in 1..7 |-> car]
    /\ \E wet \in BOOLEAN :
          /\ rain_lap = IF wet THEN <<1>> ELSE NoLap
          /\ safety_car_lap = IF wet THEN <<2>> ELSE NoLap
    /\ is_raining = FALSE /\ safety_car_active = FALSE
    /\ current_decision_point = None /\ decision_history = << >>
    /\ pause_event = TRUE
    /\ handled_events = {} /\ pre_computed_decision = None
    /\ pre_compute_started = FALSE
    /\ worker = "idle"
    /\ resolved = 0
    /\ AuxInit /\ NoAdvisorCall

PhysNext ==
    \/ AdvanceLapTimed
    \/ SeedRng
    \/ QuickSimReseeds
    \/ OtherSessionDraws

PhysSpec == PhysInit /\ [][PhysNext]_vars

\* ------------------------------------------------------------------------
\* Positions, with cars that set the same time
\* ------------------------------------------------------------------------
\* lap time of opponent c with a full battery on a dry lap, the jitter left out
OpponentBaseTime(c) ==
    LapTime(NewCar, OpponentDials[c][1], OpponentDials[c][2], FALSE, FALSE, 0)

\* values np.random.uniform can return for the eight cars of a lap (within half a
\* second for the player, a second for the opponents): no jitter at all; the
\* jitter that brings opponent 2 to the time of opponent 1; the jitter that brings
\* every opponent to 89.7 s, and the player with it when its dials are 100/100
ZeroJitter == [c \in Cars |-> 0]
PairTieJitter ==
    [c \in Cars |-> IF c = 2 THEN OpponentBaseTime(1) - OpponentBaseTime(2) ELSE 0]
AllTieJitter ==
    [c \in Cars |-> IF c = 0 THEN (3 * TimeScale) \div 10
                    ELSE (897 * TimeScale) \div 10 - OpponentBaseTime(c)]
JitterVectors == {ZeroJitter, PairTieJitter, AllTieJitter}

\* advance_lap with the jitter the generator returns drawn from JitterVectors
AdvanceLapJittered ==
    /\ orchestrator /\ pc = "loop" /\ ~is_complete
    /\ UNCHANGED <<total_laps, rain_lap, safety_car_lap>>
    /\ advance_lap
    /\ IF is_complete'
       THEN UNCHANGED <<lap_time, cumulative_time, position>>
       ELSE /\ \E jitter \in JitterVectors :
                  lap_time' = LapTimesOf(player', opponents', is_raining',
                                         safety_car_active', jitter)
            /\ cumulative_time' = [c \in Cars |-> cumulative_time[c] + lap_time'[c]]
            /\ position' = _update_race_positions(cumulative_time')
    /\ UNCHANGED <<client_vars, pc, orchestrator, lap_accum, update_accum, outbox,
                   last_update, sessions, is_paused, current_decision_point,
                   decision_history, pause_event, orch_vars, worker, resolved,
                   rng, rng_seed, conn_vars, clock_vars, job_vars, advisor_vars>>

PosSpec == PhysInit /\ [][AdvanceLapJittered]_vars

\* ------------------------------------------------------------------------
\* The race loop with the lap times and the positions
\* ------------------------------------------------------------------------
\* what advance_lap does beside the resources when it simulates a lap: lap times
\* with eight draws from the generator, cumulative times and positions
TimedLap ==
    IF current_lap' # current_lap /\ ~is_complete'
    THEN /\ lap_time' = LapTimes(player', opponents', is_raining',
                                 safety_car_active', rng)
         /\ cumulative_time' = [c \in Cars |-> cumulative_time[c] + lap_time'[c]]
         /\ position' = _update_race_positions(cumulative_time')
         /\ rng' = RngAfter(rng, 8)
    ELSE UNCHANGED <<lap_time, cumulative_time, position, rng>>

TimedStartGame ==
    /\ StartGame /\ TimedLap
    /\ UNCHANGED <<rng_seed, conn_vars, clock_vars, job_vars, advisor_vars>>

TimedLoopTick(dt) ==
    /\ LoopPass(dt) /\ TimedLap
    /\ UNCHANGED <<rng_seed, conn_vars, clock_vars, job_vars, advisor_vars>>

\* one connection running one short race, with the selections the client sends and
\* the pre-computation job
RaceNext ==
    \/ ClientStartShortGame
    \/ ClientSelectStrategy
    \/ TimedStartGame
    \/ HandleSelectStrategy
    \/ \E dt \in DtChoices : TimedLoopTick(dt)
    \/ LoopCheck
    \/ WaitForPause
    \/ WorkerComplete
    \/ WorkerFail

RaceSpec == Init /\ [][RaceNext]_vars

\* ------------------------------------------------------------------------
\* run_race_loop with its clock
\* ------------------------------------------------------------------------
\* the 300 s of wait_for, in units of 0.05 s
DECISION_TIMEOUT == 6000

\* a clock whose reading does not change from one pass to the next
ClockRead_coarse(dt) == now

\* line 683: time.perf_counter() read dt after the previous reading; dt > 0
\* because every pass ends in a sleep
ClockRead(dt) == now + dt

\* line 684: dt = now - last, the reading being taken dt after the previous one
Elapsed(dt) == now + dt - last

\* a pass of the loop with the clock reading it makes; LAP_UPDATE carries this
\* reading as server_timestamp and the lap the session is in
ClockedLoopTick(dt) ==
    /\ LoopPass(Elapsed(dt))
    /\ now' = ClockRead(dt)
    /\ last' = now'
    /\ lap_updates' = IF SendsLapUpdate(Elapsed(dt))
                      THEN Append(lap_updates, [lap |-> current_lap',
                                                server_timestamp |-> now'])
                      ELSE lap_updates
    /\ UNCHANGED <<conn_vars, job_vars, phys_vars, advisor_vars>>

\* the wait without the new baseline of line 862
ResetBaseline_keep == last' = last

\* line 862: last = time.perf_counter() after the pause
ResetBaseline == last' = now'

\* the wait, in which the clock runs on for the time of the timeout
ClockedWaitForPause ==
    /\ WaitPass
    /\ now' = IF pause_event THEN now ELSE now + DECISION_TIMEOUT
    /\ ResetBaseline
    /\ UNCHANGED <<lap_updates, conn_vars, job_vars, phys_vars, advisor_vars>>

\* one connection running one short race; the messages the client sends during
\* the race are not read before it ends and are left out
ClockNext ==
    \/ ClientStartShortGame
    \/ HandleStartGame
    \/ \E dt \in DtChoices : ClockedLoopTick(dt)
    \/ LoopCheck
    \/ ClockedWaitForPause

ClockSpec == Init /\ [][ClockNext]_vars

\* ------------------------------------------------------------------------
\* The pre-computation job and what it reads
\* ------------------------------------------------------------------------
\* _project_state_forward: the player one lap ahead under the current dials
_project_state_forward(lap, p) ==
    LET projected == _simulate_player_lap(p)
    IN [lap |-> lap + 1, battery_soc |-> projected.battery_soc,
        tire_life |-> projected.tire_life,
        fuel_remaining |-> projected.fuel_remaining]

\* lines 517-528 and 541-549: the fields pre_compute_rain_decision takes from
\* self.game_state when it builds predicted_state and race_context
ReadGameState(p) ==
    [lap |-> 3, battery_soc |-> p.battery_soc, tire_life |-> p.tire_life,
     fuel_remaining |-> p.fuel_remaining]

\* a pass of the loop; when it hands the job to the executor, the projection of the
\* player at that moment is noted beside the job
JobLoopTick(dt) ==
    /\ LoopPass(dt)
    /\ job' = IF worker' = "dispatched" /\ worker # "dispatched"
              THEN <<[at_dispatch |-> _project_state_forward(current_lap', player'),
                      predicted_state |-> None, race_context |-> None]>>
              ELSE job
    /\ UNCHANGED <<conn_vars, clock_vars, phys_vars, advisor_vars>>

\* the executor thread starts the job: predicted_state is built from the live session
WorkerBuildState ==
    /\ worker = "dispatched" /\ job # None /\ job[1].predicted_state = None
    /\ job' = <<[job[1] EXCEPT !.predicted_state = <<ReadGameState(player)>>]>>
    /\ UNCHANGED <<core_vars, conn_vars, clock_vars, phys_vars, advisor_vars>>

\* the end of the job with a write to the orchestrator's handled events
WorkerAnalyze_marks_handled ==
    /\ worker = "dispatched" /\ job # None /\ job[1].predicted_state # None
    /\ job' = <<[job[1] EXCEPT !.race_context = <<ReadGameState(player)>>]>>
    /\ \E o \in AdvisorOutcomes : pre_computed_decision' = <<PreComputedOf(o)>>
    /\ worker' = "done"
    /\ handled_events' = handled_events \cup {"RAIN_START"}
    /\ UNCHANGED <<client_vars, loop_vars, sessions, game_state,
                   pre_compute_started, resolved, conn_vars, clock_vars, phys_vars,
                   advisor_vars>>

\* after the simulations: race_context is built from the live session, the advisor
\* answers and the result is cached
WorkerAnalyze ==
    /\ worker = "dispatched" /\ job # None /\ job[1].predicted_state # None
    /\ job' = <<[job[1] EXCEPT !.race_context = <<ReadGameState(player)>>]>>
    /\ \E o \in AdvisorOutcomes : pre_computed_decision' = <<PreComputedOf(o)>>
    /\ worker' = "done"
    /\ UNCHANGED <<client_vars, loop_vars, sessions, game_state, handled_events,
                   pre_compute_started, resolved, conn_vars, clock_vars, phys_vars,
                   advisor_vars>>

\* one connection running one short race, with the steps of the job
JobNext ==
    \/ ClientStartShortGame
    \/ HandleStartGame
    \/ \E dt \in DtChoices : JobLoopTick(dt)
    \/ LoopCheck
    \/ WaitForPause
    \/ WorkerBuildState
    \/ WorkerAnalyze
    \/ WorkerFail

JobSpec == Init /\ [][JobNext]_vars

\* ------------------------------------------------------------------------
\* api/gemini_game_advisor.py: one call of analyze_decision_point
\* ------------------------------------------------------------------------
max_retries == 2
\* win rates the simulations give a strategy
WinRates == {0, 10, 40}

\* what one attempt of _call_gemini_with_timeout meets: generate_content raises
\* (timeout, network error), the text is no JSON (malformed), or it parses to an
\* object; its 'recommended' field is absent (None) or a list of entries, its
\* 'avoid' field absent or one entry.  An entry is << id >>, or << >> when it has
\* no 'strategy_id'.
RecommendedFields ==
    {None, << << <<0>> >> >>, << << <<0>>, <<1>> >> >>, << << <<1>>, <<0>> >> >>,
     << << <<2>>, <<2>> >> >>, << << <<0>>, <<3>> >> >>, << << <<0>>, << >> >> >>,
     << << <<-1>>, <<1>> >> >>, << << <<0>>, <<1>>, <<2>> >> >>}
AvoidFields == {None, << << >> >>, << <<2>> >>, << <<0>> >>, << <<3>> >>}
Responses ==
    {[kind |-> k, recommended |-> None, avoid |-> None] :
        k \in {"timeout", "network", "malformed"}}
    \cup {[kind |-> "json", recommended |-> r, avoid |-> a] :
             r \in RecommendedFields, a \in AvoidFields}

\* an entry with its 'strategy_id' in the range of strategy_stats
ValidEntry(entry, n) == entry # << >> /\ entry[1] >= 0 /\ entry[1] < n

\* the validation without the check of the number of recommendations
_validate_and_enrich_recommendations_any_length(response, n) ==
    /\ response.kind = "json"
    /\ response.recommended # None /\ response.avoid # None
    /\ \A i \in 1..Len(response.recommended[1]) :
          ValidEntry(response.recommended[1][i], n)
    /\ ValidEntry(response.avoid[1], n)

\* TRUE when the attempt returns: nothing raised by generate_content,
\* _parse_gemini_response or _validate_and_enrich_recommendations
_validate_and_enrich_recommendations(response, n) ==
    /\ response.kind = "json"
    /\ response.recommended # None /\ response.avoid # None
    /\ Len(response.recommended[1]) = 2
    /\ \A i \in 1..Len(response.recommended[1]) :
          ValidEntry(response.recommended[1][i], n)
    /\ ValidEntry(response.avoid[1], n)

\* the recommendations an accepted response is turned into
Enriched(response) ==
    [recommended |-> [i \in 1..Len(response.recommended[1]) |->
                         <<response.recommended[1][i][1]>>],
     avoid |-> <<response.avoid[1][1]>>]

\* sorted(enumerate(strategy_stats), key=win_rate, reverse=True): the sort is
\* stable, equal win rates keep the order of the strategy ids
sorted_stats(win_rate) ==
    CHOOSE q \in [1..3 -> 0..2] :
        \A a, b \in 1..3 :
            a < b => \/ win_rate[q[a]] > win_rate[q[b]]
                     \/ win_rate[q[a]] = win_rate[q[b]] /\ q[a] < q[b]

\* _fallback_recommendations: the two best win rates and the worst
_fallback_recommendations(win_rate) ==
    LET q == sorted_stats(win_rate)
    IN [recommended |-> << <<q[1]>>, <<q[2]>> >>, avoid |-> <<q[3]>>]

\* a call is made, with or without a configured model, on the statistics of the
\* three strategies
AdvisorInit ==
    /\ CoreInit /\ AuxInit
    /\ \E g \in BOOLEAN, w \in [0..2 -> WinRates] :
          adv = [gemini_available |-> g, win_rate |-> w, status |-> "start",
                 attempts |-> 0, failed |-> 0, result |-> None,
                 used_fallback |-> FALSE]

\* lines 141-161: with a model the advisory call is tried, without one the
\* fallback is taken at once
AdvisorStart ==
    /\ adv.status = "start"
    /\ adv' = [adv EXCEPT !.status = IF adv.gemini_available THEN "calling"
                                     ELSE "fallback"]
    /\ UNCHANGED <<core_vars, conn_vars, clock_vars, job_vars, phys_vars>>

\* one pass of the for loop of _call_gemini_with_timeout: the first valid answer is
\* returned with used_fallback = False; a failure is retried while attempt is
\* below max_retries and re-raised after that, to the except of the caller
AdvisorAttempt ==
    /\ adv.status = "calling"
    /\ \E response \in Responses :
          IF _validate_and_enrich_recommendations(response, 3)
          THEN adv' = [adv EXCEPT !.attempts = @ + 1, !.status = "returned",
                                  !.result = <<Enriched(response)>>,
                                  !.used_fallback = FALSE]
          ELSE adv' = [adv EXCEPT !.attempts = @ + 1, !.failed = @ + 1,
                                  !.status = IF adv.attempts < max_retries
                                             THEN "calling" ELSE "fallback"]
    /\ UNCHANGED <<core_vars, conn_vars, clock_vars, job_vars, phys_vars>>

\* lines 152-161: the heuristic ranking, with used_fallback = True
AdvisorFallback ==
    /\ adv.status = "fallback"
    /\ adv' = [adv EXCEPT !.status = "returned",
                          !.result = <<_fallback_recommendations(adv.win_rate)>>,
                          !.used_fallback = TRUE]
    /\ UNCHANGED <<core_vars, conn_vars, clock_vars, job_vars, phys_vars>>

AdvisorNext ==
    \/ AdvisorStart
    \/ AdvisorAttempt
    \/ AdvisorFallback

AdvisorSpec == AdvisorInit /\ [][AdvisorNext]_vars

Next ==
    \/ ClientStartGame
    \/ ClientSelectStrategy
    \/ HandleStartGame
    \/ HandleSelectStrategy
    \/ \E dt \in DtChoices : LoopTick(dt)
    \/ LoopCheck
    \/ WaitForPause
    \/ WorkerComplete
    \/ WorkerFail

Spec == Init /\ [][Next]_vars

\* the event loop keeps scheduling the handler task, and a timer that is armed fires
FairSpec ==
    /\ Spec
    /\ WF_vars(HandleStartGame) /\ WF_vars(HandleSelectStrategy)
    /\ WF_vars(\E dt \in DtChoices : LoopTick(dt))
    /\ WF_vars(LoopCheck) /\ WF_vars(WaitForPause)

TypeOK ==
    /\ pc \in {"recv", "loop", "check", "paused", "closed"}
    /\ worker \in {"idle", "dispatched", "done", "failed"}
    /\ current_lap \in Nat
    /\ lap_accum \in 0..(LAP_TIME_DEMO - 1) /\ update_accum \in 0..(UPDATE_INTERVAL - 1)


\* ------------------------------------------------------------------------
\* Properties
\* ------------------------------------------------------------------------
Last(q) == q[Len(q)]
IsDecisionPoint(m) == m.type = "DECISION_POINT"
\* the DECISION_POINT messages sent so far, in order
DecisionPoints == SelectSeq(outbox, IsDecisionPoint)
\* a decision point has been emitted and is not resolved yet
DecisionOpen == Len(DecisionPoints) > resolved
\* this step sends a DECISION_POINT
EmitsDecisionPoint ==
    Len(outbox') = Len(outbox) + 1 /\ Last(outbox').type = "DECISION_POINT"
\* this step is the receive loop handling a SELECT_STRATEGY message
SelectHandled ==
    /\ pc = "recv" /\ inbox # << >> /\ Head(inbox).type = "SELECT_STRATEGY"
    /\ inbox' = Tail(inbox)
ValidSelectPending ==
    /\ inbox # << >> /\ Head(inbox).type = "SELECT_STRATEGY"
    /\ Head(inbox).strategy_id \in 0..2
DialsOf(p) ==
    Dials(p.energy_deployment, p.tire_management, p.fuel_strategy, p.ers_mode,
          p.overtake_aggression, p.defense_intensity)
EventTypes ==
    {"RAIN_START", "SAFETY_CAR", "BATTERY_LOW", "TIRE_CRITICAL", "STRATEGIC_CHECKPOINT"}

\* C1: while the loop is paused for a decision, a SELECT_STRATEGY with a strategy id
\* in {0,1,2} that the client has sent on the connection is received and handled:
\* when the pause ends with such a message pending, it ends by that message being
\* taken from the connection and answered with STRATEGY_APPLIED, not by the timeout.
C1_SelectionEndsPause ==
    [][(pc = "paused" /\ ~pause_event /\ ValidSelectPending /\ pc' # "paused")
        => (inbox' = Tail(inbox) /\ Last(outbox').type = "STRATEGY_APPLIED")]_vars

\* C2: when the timeout resolves an open decision point, the balanced strategy
\* (id 1) is applied to the player, exactly one record of it is appended to
\* decision_history and the loop is running again; and the loop never stays paused.
C2_TimeoutStep ==
    pc = "paused" /\ ~pause_event /\ pc' # "paused" /\ inbox' = inbox
C2_TimeoutAutoSelects ==
    /\ [][C2_TimeoutStep =>
            /\ pc' = "loop" /\ pause_event'
            /\ Len(decision_history') = Len(decision_history) + 1
            /\ SubSeq(decision_history', 1, Len(decision_history)) = decision_history
            /\ Last(decision_history').strategy_chosen = 1
            /\ Last(decision_history').strategy_params \in
                  {generate_strategy_variations(e)[2] : e \in EventTypes}
            /\ DialsOf(player') = Last(decision_history').strategy_params]_vars
    /\ ((pc = "paused") ~> (pc = "loop"))
C2_Witness ==
    /\ pc = "loop" /\ resolved >= 1 /\ pause_event
    /\ decision_history # << >>
    /\ Last(decision_history).strategy_chosen = 1
    /\ DialsOf(player) = generate_strategy_variations("RAIN_START")[2]

\* C3: at most one decision point is open at any time: the number of DECISION_POINT
\* messages sent never exceeds the number of resolutions by more than one, also when
\* rain and safety car start on the same lap.
C3_AtMostOneOpen ==
    /\ Len(DecisionPoints) <= resolved + 1
    /\ resolved <= Len(DecisionPoints)
C3_Witness ==
    /\ is_raining /\ safety_car_active /\ rain_lap = safety_car_lap
    /\ pc = "paused" /\ Len(DecisionPoints) = 1 /\ resolved = 0
    /\ "SAFETY_CAR" \notin handled_events

\* C4: each event type fires at most once per session, and an event type that is
\* recorded as handled is not returned by the detector again.
C4_FiresOnce ==
    /\ \A i, j \in 1..Len(DecisionPoints) :
          i # j => DecisionPoints[i].event_type # DecisionPoints[j].event_type
    /\ \A e \in handled_events : check_for_decision_point # <<e>>
    /\ \A e \in handled_events :
          check_decision_point(
             RaceStateOf(current_lap, player, is_raining, safety_car_active),
             handled_events) # <<e>>
C4_Witness ==
    /\ is_raining /\ "RAIN_START" \in handled_events
    /\ resolved >= 1 /\ pc = "loop" /\ rain_lap # NoLap /\ current_lap > rain_lap[1]
    /\ Len(DecisionPoints) = 1


\* C5: when a decision event fires, the recommendation comes from the cache only if
\* the event is the pre-computed one (RAIN_START) and a completed result is cached;
\* in every other case (nothing cached yet, job failed, reactive event) the message
\* carries the heuristic with used_fallback = true and latency_ms = 0.
C5_CacheOrHeuristic ==
    [][EmitsDecisionPoint =>
        LET m == Last(outbox')
            recommendations == current_decision_point'[1].recommendations
        IN /\ current_decision_point'[1].event_type = m.event_type
           /\ recommendations.recommended = m.recommended
           /\ recommendations.pre_computed =>
                 /\ m.event_type = "RAIN_START"
                 /\ worker = "done" /\ pre_computed_decision # None
                 /\ m.recommended = pre_computed_decision[1].recommended
                 /\ m.used_fallback = pre_computed_decision[1].used_fallback
           /\ ~recommendations.pre_computed =>
                 /\ m.event_type # "RAIN_START" \/ pre_computed_decision = None
                 /\ m.used_fallback /\ m.latency_ms = 0
                 /\ m.recommended = generate_heuristic_recommendations.recommended
                 /\ m.avoid = generate_heuristic_recommendations.avoid]_vars
C5_Witness ==
    /\ pc = "paused" /\ pre_computed_decision # None
    /\ Last(outbox).type = "DECISION_POINT"
    /\ Last(outbox).event_type = "TIRE_CRITICAL"
    /\ Last(outbox).tire_life < 25 * Scale
    /\ Last(outbox).used_fallback /\ Last(outbox).latency_ms = 0

\* C6: with a rain lap R scheduled, the pre-computation job is dispatched when the
\* race is one lap before R and no pre-computation has been started; and a job is
\* dispatched only when none has been started before.
C6_DispatchedOneLapAhead ==
    /\ [](( /\ orchestrator /\ pc = "check" /\ ~is_complete
            /\ rain_lap # NoLap /\ current_lap = rain_lap[1] - 1 )
          => pre_compute_started)
    /\ [][(worker' = "dispatched" /\ worker # "dispatched") => ~pre_compute_started]_vars

\* C7: COMPLETE is terminal: once is_complete is true no step changes any field of
\* the session state.
C7_CompleteIsTerminal ==
    [][is_complete => game_state' = game_state]_vars

\* C8 as claimed: in every reachable state of a session 0 <= current_lap <= total_laps.
C8_LapWithinTotal ==
    orchestrator => (0 <= current_lap /\ current_lap <= total_laps)

\* C8 as amended: 0 <= current_lap <= total_laps + 1 in every reachable state of a
\* session, and current_lap = total_laps + 1 exactly when the race is marked complete.
C8_LapWithinTotalPlusOne ==
    orchestrator =>
        /\ 0 <= current_lap /\ current_lap <= total_laps + 1
        /\ is_complete <=> (current_lap = total_laps + 1)
C8_Witness ==
    /\ orchestrator /\ is_complete /\ total_laps = MaxLaps
    /\ current_lap = total_laps + 1
    /\ Last(outbox).type = "RACE_COMPLETE"

\* C9: current_decision_point is non-null only while is_paused is true and the
\* decision is open: it is null whenever no decision is open, and is_paused is true
\* whenever a decision is open.
C9_DecisionPointOnlyWhilePaused ==
    /\ current_decision_point # None => (is_paused /\ DecisionOpen)
    /\ DecisionOpen => is_paused

\* C10: a SELECT_STRATEGY received while the session has no open decision point is
\* answered with ERROR and leaves the player's dials and decision_history unchanged.
C10_SelectWithoutDecisionIsError ==
    [][(SelectHandled /\ orchestrator /\ ~DecisionOpen)
        => /\ Last(outbox').type = "ERROR"
           /\ player' = player
           /\ decision_history' = decision_history]_vars

\* C11: a SELECT_STRATEGY whose strategy_id is an integer outside {0,1,2} is answered
\* with ERROR and changes nothing: the dials, decision_history and the stored decision
\* point stay as they are, the pause event is not released and the session stays
\* registered with its handler in the receive loop.
C11_InvalidIdChangesNothing ==
    [][(SelectHandled /\ Head(inbox).strategy_id \notin 0..2)
        => /\ Len(outbox') = Len(outbox) + 1 /\ Last(outbox').type = "ERROR"
           /\ player' = player /\ decision_history' = decision_history
           /\ current_decision_point' = current_decision_point
           /\ pause_event' = pause_event
           /\ sessions' = sessions /\ orchestrator' = orchestrator
           /\ game_state' = game_state /\ pc' = "recv"]_vars
C11_Witness ==
    /\ orchestrator /\ SessionId \in sessions
    /\ outbox # << >> /\ Last(outbox).type = "ERROR"
    /\ Last(outbox).message = "Invalid strategy selection"
    /\ current_decision_point # None /\ decision_history # << >>

\* C19: a resolution corresponds to the open decision point: when a decision is
\* resolved with strategy id k, the dials applied to the player are the
\* strategy_params the open DECISION_POINT showed for id k, and the event_type
\* recorded in decision_history is the event_type of that DECISION_POINT.
C19_ResolutionMatchesOpenDecision ==
    [][(DecisionOpen /\ Len(decision_history') = Len(decision_history) + 1)
        => LET dp == Last(DecisionPoints)
               record == Last(decision_history')
               shown == dp.recommended \o dp.avoid
           IN /\ record.event_type = dp.event_type
              /\ \A i \in 1..Len(shown) :
                    shown[i].strategy_id = record.strategy_chosen
                       => shown[i].strategy_params = DialsOf(player')]_vars

\* C12: a client disconnection always leads to the session being removed from the
\* registry: when the handler of a disconnected client ends, whichever state it was
\* in, its session is no longer registered.
C12_DisconnectRemovesSession ==
    [][(~connected /\ pc # "closed" /\ pc' = "closed") => SessionId \notin sessions']_vars

\* C13: an internal exception in a session's loop (the handler ends while the client
\* is still connected) is answered with ERROR and the session is removed from the
\* registry, and the registry entry of no other session changes.
C13_ExceptionTearsDownSession ==
    [][(connected /\ pc # "closed" /\ pc' = "closed")
        => /\ Last(outbox').type = "ERROR"
           /\ SessionId \notin sessions'
           /\ (OtherSessionId \in sessions') = (OtherSessionId \in sessions)]_vars

\* C14: the detector evaluates rain, safety car, battery_soc < 15 and tire_life < 25
\* in this order, each only when its event is not handled yet: the decision check
\* emits the first unhandled event whose predicate holds, and emits nothing and lets
\* the loop run on when there is none.
C14_Priority == <<"RAIN_START", "SAFETY_CAR", "BATTERY_LOW", "TIRE_CRITICAL">>
C14_Holds(e) ==
    CASE e = "RAIN_START" -> is_raining
      [] e = "SAFETY_CAR" -> safety_car_active
      [] e = "BATTERY_LOW" -> player.battery_soc < 15 * Scale
      [] e = "TIRE_CRITICAL" -> player.tire_life < 25 * Scale
C14_Matches == {i \in 1..4 : C14_Holds(C14_Priority[i])
                               /\ C14_Priority[i] \notin handled_events}
C14_DetectorPriority ==
    [][(pc = "check" /\ pc' # "check")
        => IF C14_Matches = {}
           THEN outbox' = outbox /\ pc' = "loop" /\ handled_events' = handled_events
           ELSE LET first == CHOOSE i \in C14_Matches : \A j \in C14_Matches : i <= j
                IN /\ EmitsDecisionPoint
                   /\ Last(outbox').event_type = C14_Priority[first]
                   /\ handled_events' = handled_events \cup {C14_Priority[first]}
                   /\ pc' = "paused"]_vars
C14_Witness ==
    /\ pc = "paused" /\ Last(outbox).type = "DECISION_POINT"
    /\ Last(outbox).event_type = "BATTERY_LOW"
    /\ player.battery_soc < 15 * Scale /\ player.tire_life < 25 * Scale
    /\ is_raining /\ "RAIN_START" \in handled_events
    /\ safety_car_active /\ "SAFETY_CAR" \in handled_events
    /\ "TIRE_CRITICAL" \notin handled_events

\* this step is a lap advance that simulated the lap
LapSimulated ==
    current_lap' = current_lap + 1 /\ ~is_complete'
CarsAfter == <<player'>> \o opponents'

\* C15: after any lap advance of any car with dials in [0,100], battery_soc and
\* tire_life are in [0,100], fuel_remaining >= 0, and cumulative_time has grown,
\* strictly, by exactly the lap_time computed for that lap.
C15_LapAdvanceKeepsRanges ==
    [][LapSimulated =>
        /\ \A i \in 1..8 :
              /\ 0 <= CarsAfter[i].battery_soc /\ CarsAfter[i].battery_soc <= 100 * Scale
              /\ 0 <= CarsAfter[i].tire_life /\ CarsAfter[i].tire_life <= 100 * Scale
              /\ 0 <= CarsAfter[i].fuel_remaining
        /\ \A c \in Cars :
              /\ cumulative_time'[c] = cumulative_time[c] + lap_time'[c]
              /\ cumulative_time'[c] > cumulative_time[c]]_vars
C15_Witness ==
    /\ current_lap = 2 /\ ~is_complete /\ safety_car_active
    /\ player.energy_deployment = 100 /\ player.ers_mode = 0
    /\ player.battery_soc = 0
    /\ player.tire_management = 0 /\ player.tire_life = 0
    /\ player.fuel_strategy = 0 /\ player.fuel_remaining = 0
    /\ opponents[4].tire_life = 0 /\ opponents[1].battery_soc > 0
    /\ cumulative_time[0] > lap_time[0] /\ lap_time[0] > 0

\* C17: the lap advance is deterministic given the car state, the dials, the flags
\* and the seed of the generator: an advance made after seeding with s adds the
\* jitter that seed s gives, whatever else ran between the seeding and the advance.
C17_AdvanceDeterministic ==
    [][(LapSimulated /\ rng_seed # None) =>
        lap_time' = LapTimes(player', opponents', is_raining', safety_car_active',
                             RngSeeded(rng_seed[1]))]_vars

\* C16: the LAP_UPDATE messages of a session are strictly ordered: from one message
\* to the next the lap never decreases and server_timestamp strictly increases,
\* across lap advances, pauses and resumes.
C16_UpdatesOrdered ==
    \A i \in 1..(Len(lap_updates) - 1) :
        /\ lap_updates[i].lap <= lap_updates[i + 1].lap
        /\ lap_updates[i].server_timestamp < lap_updates[i + 1].server_timestamp
C16_Witness ==
    /\ resolved >= 1 /\ Len(lap_updates) >= 3
    /\ \E i \in 1..(Len(lap_updates) - 1) :
          /\ lap_updates[i].lap < lap_updates[i + 1].lap
          /\ lap_updates[i + 1].server_timestamp
                 >= lap_updates[i].server_timestamp + DECISION_TIMEOUT
    /\ \E i \in 1..(Len(lap_updates) - 1) : lap_updates[i].lap = lap_updates[i + 1].lap

\* C20: the pre-computation job works on a projection fixed at dispatch: the lap,
\* battery, tire and fuel values it reads, at its start and later, are those of the
\* player at dispatch advanced one synthetic lap under the current dials, whatever
\* laps the live session advances before the job reads.
C20_JobReadsDispatchProjection ==
    job # None =>
        /\ job[1].predicted_state # None => job[1].predicted_state[1] = job[1].at_dispatch
        /\ job[1].race_context # None => job[1].race_context[1] = job[1].at_dispatch

\* C18: a failure of the advisory call is not propagated: at most 3 attempts are
\* made; an answer returned with used_fallback = false is the first valid one (all
\* attempts before it failed); when every attempt fails, or no model is configured,
\* the heuristic ranking by win rate is returned with used_fallback = true; and
\* every result has exactly two recommended entries and one avoid entry, each with
\* a strategy_id of one of the three strategies.
C18_AdvisorNeverFails ==
    /\ adv.attempts <= 3 /\ adv.failed <= adv.attempts
    /\ adv.status \in {"start", "calling", "fallback", "returned"}
    /\ adv.status = "fallback" =>
          (~adv.gemini_available \/ (adv.attempts = 3 /\ adv.failed = 3))
    /\ adv.status = "returned" =>
          /\ adv.result # None
          /\ Len(adv.result[1].recommended) = 2
          /\ \A i \in 1..2 : /\ Len(adv.result[1].recommended[i]) = 1
                              /\ adv.result[1].recommended[i][1] \in 0..2
          /\ Len(adv.result[1].avoid) = 1 /\ adv.result[1].avoid[1] \in 0..2
          /\ ~adv.used_fallback =>
                /\ adv.gemini_available
                /\ adv.attempts >= 1 /\ adv.failed = adv.attempts - 1
          /\ adv.used_fallback =>
                /\ ~adv.gemini_available \/ adv.failed = 3
                /\ \A i \in 0..2 :
                      /\ adv.win_rate[adv.result[1].recommended[1][1]] >= adv.win_rate[i]
                      /\ adv.win_rate[adv.result[1].avoid[1]] <= adv.win_rate[i]
                /\ adv.result[1].recommended[1][1] # adv.result[1].recommended[2][1]
C18_Witness ==
    /\ adv.status = "returned" /\ adv.gemini_available
    /\ adv.attempts = 3 /\ adv.failed = 3 /\ adv.used_fallback
    /\ adv.win_rate[2] = 40 /\ adv.win_rate[0] = 0 /\ adv.win_rate[1] = 10
    /\ adv.result[1].recommended = << <<2>>, <<1>> >> /\ adv.result[1].avoid = <<0>>

\* this step is taken by the pre-computation job: it reads the session, ends with a
\* result or ends with an exception
WorkerStep ==
    worker = "dispatched" /\ (job' # job \/ worker' # "dispatched")

\* C21: the pre-computation job never mutates live session state: from dispatch to
\* completion its steps write the cache slot only; every field of the session state
\* (cars, current_lap, flags, decision point, decision_history), the handled-event
\* set and what the loop and the connection hold are left unchanged.
C21_WorkerWritesCacheOnly ==
    [][WorkerStep =>
        /\ game_state' = game_state
        /\ handled_events' = handled_events
        /\ pre_compute_started' = pre_compute_started
        /\ sessions' = sessions /\ loop_vars' = loop_vars /\ client_vars' = client_vars
        /\ (pre_computed_decision' # pre_computed_decision => worker' = "done")]_vars
C21_Witness ==
    /\ worker = "done" /\ pre_computed_decision # None
    /\ job # None /\ job[1].race_context # None
    /\ current_lap = 3 /\ is_raining /\ "RAIN_START" \notin handled_events
    /\ job[1].predicted_state[1].battery_soc > job[1].race_context[1].battery_soc

\* this step is taken by the race loop
LoopStep == pc \in {"loop", "check", "paused"} /\ pc' # pc

\* C22: pre-computation never blocks lap advancement: while the job is in flight the
\* race loop is never held up (a pass, with or without a lap advance, is possible
\* whenever the loop is at its top, and so are the decision check and the wait), and
\* no step of the loop changes the job or its cache slot.
C22_JobNeverBlocksLoop ==
    [][/\ (worker = "dispatched" /\ pc = "loop") =>
             \A dt \in DtChoices : ENABLED JobLoopTick(dt)
       /\ (worker = "dispatched" /\ pc = "check") => ENABLED LoopCheck
       /\ (worker = "dispatched" /\ pc = "paused") => ENABLED WaitForPause
       /\ (worker = "dispatched" /\ LoopStep) =>
             /\ worker' = "dispatched"
             /\ pre_computed_decision' = pre_computed_decision
             /\ job' = job]_vars
C22_Witness ==
    /\ worker = "dispatched" /\ job # None /\ job[1].predicted_state = None
    /\ current_lap = 3 /\ pc = "loop" /\ resolved = 1 /\ last_update # None
    /\ Len(DecisionPoints) = 1 /\ DecisionPoints[1].lap = 3
    /\ DecisionPoints[1].used_fallback /\ pre_computed_decision = None

\* C23: the decision detector is evaluated once per simulated lap, only after a lap
\* advance: a DECISION_POINT is emitted only by a pass that advanced a lap (its lap
\* timer is back at 0) or, on lap 1, by a pass after the kick-start advance, and
\* never for a lap for which a DECISION_POINT has been emitted already.
C23_DetectorOncePerLap ==
    [][EmitsDecisionPoint =>
        /\ lap_accum = 0 \/ current_lap = 1
        /\ \A i \in 1..Len(DecisionPoints) : DecisionPoints[i].lap # current_lap]_vars

\* this step is a pass of the loop that accumulates time; the clock was last read
\* at the previous pass or, after a pause, at the resumption
AccumulatingPass == pc = "loop" /\ pc' # "loop"

\* C24: time spent paused is never accounted as race time: the wait itself leaves
\* the lap, the lap accumulator and the update accumulator as they are, and the pass
\* after it accounts only the time elapsed since the resumption: it advances a lap
\* only when the lap accumulator plus that time reaches the lap time, and otherwise
\* adds exactly that time to both accumulators.
C24_PauseIsNotRaceTime ==
    [][/\ (pc = "paused" /\ pc' # "paused") =>
             /\ now' - now \in {0, DECISION_TIMEOUT}
             /\ lap_accum' = lap_accum /\ update_accum' = update_accum
             /\ current_lap' = current_lap
       /\ AccumulatingPass =>
             /\ (current_lap' # current_lap) <=> (lap_accum + (now' - now) >= LAP_TIME_DEMO)
             /\ current_lap' = current_lap => lap_accum' = lap_accum + (now' - now)
             /\ ~is_complete' => update_accum' \in {0, update_accum + (now' - now)}]_vars
C24_Witness ==
    /\ pc = "check" /\ resolved = 1 /\ current_lap = 1
    /\ now = DECISION_TIMEOUT + 2 /\ last = now
    /\ lap_accum = 2 /\ update_accum = 0

IsRaceComplete(m) == m.type = "RACE_COMPLETE"
\* the RACE_COMPLETE messages sent so far
RaceCompletes == SelectSeq(outbox, IsRaceComplete)

\* C25: every started session emits exactly one RACE_COMPLETE and reaches is_complete,
\* for every total_laps >= 0: never more than one RACE_COMPLETE is sent, and once
\* the race is complete and run_race_loop has returned to the receive loop, after
\* which nothing sends RACE_COMPLETE any more, exactly one has been sent.
C25_ExactlyOneRaceComplete ==
    /\ Len(RaceCompletes) <= 1
    /\ (orchestrator /\ is_complete /\ pc = "recv") => Len(RaceCompletes) = 1

\* battery, tire and fuel of a car
ResourcesOf(car) == <<car.battery_soc, car.tire_life, car.fuel_remaining>>

\* C26: the race is frozen while a decision is open: from the emission of a
\* DECISION_POINT to its resolution no step advances a lap, sends LAP_UPDATE or
\* RACE_COMPLETE, or changes the lap, position, battery, tire, fuel, lap time or
\* cumulative time of any car.
C26_FrozenWhileDecisionOpen ==
    [][DecisionOpen =>
        /\ current_lap' = current_lap /\ is_complete' = is_complete
        /\ last_update' = last_update
        /\ Len(RaceCompletes') = Len(RaceCompletes)
        /\ ResourcesOf(player') = ResourcesOf(player)
        /\ opponents' = opponents
        /\ position' = position
        /\ lap_time' = lap_time /\ cumulative_time' = cumulative_time
        /\ lap_accum' = lap_accum /\ update_accum' = update_accum]_vars
C26_Witness ==
    /\ pc = "paused" /\ DecisionOpen /\ resolved = 1 /\ Len(DecisionPoints) = 2
    /\ DecisionPoints[1].lap = 2 /\ DecisionPoints[2].lap = 3
    /\ current_lap = 3 /\ cumulative_time[0] > lap_time[0] /\ position[0] \in 1..8
    /\ inbox # << >> /\ Head(inbox).type = "SELECT_STRATEGY"
    /\ worker = "done" /\ last_update # None /\ last_update[1].lap = 3

\* C27: a session emits at most four decision points, with event types drawn only
\* from RAIN_START, SAFETY_CAR, BATTERY_LOW and TIRE_CRITICAL (RAIN_STOP,
\* BATTERY_CRITICAL and OVERTAKE_OPPORTUNITY are never emitted), and is_raining and
\* safety_car_active, once set, stay true for the rest of the race.
C27_FourEventsFlagsStay ==
    [][/\ is_raining => is_raining'
       /\ safety_car_active => safety_car_active'
       /\ Len(DecisionPoints') <= 4
       /\ \A i \in 1..Len(DecisionPoints') :
             DecisionPoints'[i].event_type \in
                {"RAIN_START", "SAFETY_CAR", "BATTERY_LOW", "TIRE_CRITICAL"}
       /\ handled_events' \subseteq
             {"RAIN_START", "SAFETY_CAR", "BATTERY_LOW", "TIRE_CRITICAL"}]_vars
C27_Witness ==
    /\ Len(DecisionPoints) = 4 /\ resolved = 4
    /\ {DecisionPoints[i].event_type : i \in 1..4} =
          {"RAIN_START", "SAFETY_CAR", "BATTERY_LOW", "TIRE_CRITICAL"}
    /\ current_lap = 2 /\ rain_lap = <<1>> /\ safety_car_lap = <<1>>
    /\ is_raining /\ safety_car_active /\ pc = "loop"

\* C28: after every lap advance that does not complete the race, the positions of
\* the player and the opponents form a permutation of 1..8 (no duplicates, no gaps)
\* consistent with cumulative time: a car with strictly smaller cumulative_time
\* has a strictly smaller position, also when some cumulative times are equal.
C28_PositionsArePermutation ==
    [][LapSimulated =>
        /\ {position'[c] : c \in Cars} = 1..8
        /\ \A c, e \in Cars :
              cumulative_time'[c] < cumulative_time'[e] => position'[c] < position'[e]]_vars
C28_Witness ==
    /\ current_lap = 2 /\ ~is_complete
    /\ cumulative_time[1] = cumulative_time[2] /\ position[2] = position[1] + 1
    /\ cumulative_time[6] < cumulative_time[1] /\ position[6] < position[1]
    /\ cumulative_time[0] > cumulative_time[7] /\ position[0] = 8
    /\ {position[c] : c \in Cars} = 1..8

\* C29: when the safety-car flag is active for a lap, the safety car dominates: the
\* lap time of every car for that lap is one fixed slow-lap value, the same for all
\* cars whatever their dials, battery, tires, fuel and the rain flag.
C29_SafetyCarFixesLapTime ==
    [][(LapSimulated /\ safety_car_active') =>
        \A c, e \in Cars : lap_time'[c] = lap_time'[e]]_vars

\* engine.py:177, the penalty of simulate_lap for a car that has run out of fuel
OutOfFuelPenalty == 10 * TimeScale

\* C30: running out of fuel degrades the car: on every lap the player starts with
\* fuel_remaining = 0, the large fixed penalty is added to its lap time, which is
\* then at least the lap time of its dials, battery and flags with the lowest
\* jitter, plus the penalty.
C30_OutOfFuelPenalty ==
    [][(LapSimulated /\ player.fuel_remaining = 0) =>
        lap_time'[0] >= LapTime(player', player.energy_deployment,
                                player.tire_management, is_raining',
                                safety_car_active', -(TimeScale \div 2))
                        + OutOfFuelPenalty]_vars

====
